---- MODULE Spec2Model ----
(***************************************************************************)
(* Model of assignment-3.py: the E91 run loop, the CHSH analysis, the key  *)
(* sifting, the QBER computation, the report and the one-time pad.         *)
(*                                                                         *)
(* Python values are modelled as follows.                                  *)
(*   list of bits / bases   sequence of naturals                           *)
(*   bytes                  sequence of naturals in 0..255                 *)
(*   str                    sequence of Unicode code points                *)
(*   float quotient a / b   the exact fraction [num |-> a, den |-> b]      *)
(*   None (as a qber)       the fraction with denominator 0                *)
(*   no value / unbound     Absent (sequences), Unbound (integers)         *)
(***************************************************************************)
EXTENDS Integers, Sequences, FiniteSets, TLC

VARIABLES
    pc,             \* position of the program (or of the function under study)
    message,        \* one_time_pad_encrypt: message
    key_bits,       \* one_time_pad_encrypt / one_time_pad_decrypt: key_bits
    key_bytes,      \* one_time_pad_encrypt: key_bytes
    encrypted,      \* value returned by one_time_pad_encrypt, or Absent
    decrypted,      \* value returned by one_time_pad_decrypt, or Absent
    error,          \* the exception that ended the step, or NoError
    num_pairs,      \* run_e91_protocol: num_pairs
    i,              \* loop index of the running loop
    alice_basis,    \* run_e91_protocol: alice_basis of the current iteration
    bob_basis,      \* run_e91_protocol: bob_basis of the current iteration
    results,        \* results dict: alice_bases, bob_bases, alice_results, bob_results
    measured,       \* history of what the backend measured: <<a basis, b basis, q0, q1>>
    correlations,   \* calculate_CHSH_parameter: correlations
    counts,         \* calculate_CHSH_parameter: counts
    S_parameter,    \* results['S_parameter']
    alice_key,      \* __main__: alice_key
    bob_key,        \* __main__: bob_key
    qber,           \* __main__: qber
    matching_key,   \* __main__: matching_key
    report          \* lines printed by __main__, as tags

vars == <<pc, message, key_bits, key_bytes, encrypted, decrypted, error,
          num_pairs, i, alice_basis, bob_basis, results, measured,
          correlations, counts, S_parameter, alice_key, bob_key, qber,
          matching_key, report>>

otp_vars == <<message, key_bits, key_bytes, encrypted, decrypted>>
run_vars == <<num_pairs, i, alice_basis, bob_basis, results, measured>>
chsh_vars == <<correlations, counts, S_parameter>>
key_vars == <<alice_key, bob_key, qber, matching_key, report>>

\* Python's None, where a fraction may stand.
None == [num |-> 0, den |-> 0]

\* A variable that holds no sequence (not yet assigned, or the call raised).
Absent == <<-1>>

\* A variable that holds no integer yet.
Unbound == -1

\* No exception.
NoError == "none"

----------------------------------------------------------------------------
(* Bounds of the model.                                                    *)

MaxBits == 10          \* longest key drawn bit by bit
MaxKeyOctets == 3      \* longest key drawn octet by octet
MaxTail == 1           \* trailing bits after the last whole octet of such a key
MaxMsgLen == 2         \* longest message, in code points
MaxPairs == 2          \* largest num_pairs of a modelled run
MaxLog == 4            \* longest run log read by calculate_CHSH_parameter alone
MaxKeyBits == 3        \* longest key handed to the QBER computation alone
MaxSifted == 17        \* longest sifted key handed to the report
SeedLen == 2           \* period of the bit pattern of such a sifted key
MaxErrPos == 2         \* positions of such a sifted key where Bob's bit may differ

----------------------------------------------------------------------------
(* Arithmetic helpers.                                                     *)

Bit == {0, 1}

Min(a, b) == IF a < b THEN a ELSE b

Abs(x) == IF x < 0 THEN -x ELSE x

\* Sequences over S of length at most n.
SeqsUpTo(S, n) == UNION {[1..k -> S] : k \in 0..n}

\* Python slice s[lo:hi] with 0 <= lo, 0-based, clipped to the sequence.
Slice(s, lo, hi) ==
    IF Min(hi, Len(s)) <= lo THEN <<>> ELSE SubSeq(s, lo + 1, Min(hi, Len(s)))

\* a ^ b on naturals.
RECURSIVE XorInt(_, _)
XorInt(a, b) ==
    IF a = 0 /\ b = 0 THEN 0
    ELSE (((a % 2) + (b % 2)) % 2) + (2 * XorInt(a \div 2, b \div 2))

----------------------------------------------------------------------------
(* One-time pad.                                                           *)

\* str(b) for a bit b.
StrOfBit(b) == IF b = 0 THEN "0" ELSE "1"

\* int(byte_str, 2): most significant digit first.
RECURSIVE IntBase2(_)
IntBase2(byte_str) ==
    IF byte_str = <<>> THEN 0
    ELSE (2 * IntBase2(SubSeq(byte_str, 1, Len(byte_str) - 1)))
         + (IF byte_str[Len(byte_str)] = "1" THEN 1 ELSE 0)

IntBase2_LittleEndian(byte_str) ==
    LET RECURSIVE Rev(_)
        Rev(s) == IF s = <<>> THEN <<>> ELSE Rev(Tail(s)) \o <<Head(s)>>
    IN IntBase2(Rev(byte_str))

bits_to_bytes_LowBitFirst(bits) ==
    LET n == Len(bits) - (Len(bits) % 8)
    IN [j \in 1..(n \div 8) |->
          IntBase2_LittleEndian([k \in 1..8 |-> StrOfBit(bits[8 * (j - 1) + k])])]

\* bits_to_bytes(bits): one byte per whole group of 8 bits.
bits_to_bytes(bits) ==
    LET n == Len(bits) - (Len(bits) % 8)
    IN [j \in 1..(n \div 8) |->
          LET chunk == Slice(bits, 8 * (j - 1), 8 * j)
              byte_str == [k \in 1..Len(chunk) |-> StrOfBit(chunk[k])]
          IN IntBase2(byte_str)]

\* xor_bytes(data, pad): zip stops at the shorter operand.
xor_bytes(data, pad) ==
    [k \in 1..Min(Len(data), Len(pad)) |-> XorInt(data[k], pad[k])]

\* UTF-8 encoding of one code point (surrogates are not drawn).
EncodeCodePoint(cp) ==
    IF cp < 128 THEN <<cp>>
    ELSE IF cp < 2048 THEN <<192 + (cp \div 64), 128 + (cp % 64)>>
    ELSE IF cp < 65536 THEN
        <<224 + (cp \div 4096), 128 + ((cp \div 64) % 64), 128 + (cp % 64)>>
    ELSE <<240 + (cp \div 262144), 128 + ((cp \div 4096) % 64),
           128 + ((cp \div 64) % 64), 128 + (cp % 64)>>

\* message.encode('utf-8')
RECURSIVE encode_utf8(_)
encode_utf8(s) ==
    IF s = <<>> THEN <<>> ELSE EncodeCodePoint(Head(s)) \o encode_utf8(Tail(s))

ReplacementChar == 65533

IsCont(b) == b >= 128 /\ b <= 191

\* Allowed range of the second byte after lead byte b0 (Unicode table 3-7).
SecondOk(b0, b1) ==
    CASE b0 = 224 -> b1 >= 160 /\ b1 <= 191
      [] b0 = 237 -> b1 >= 128 /\ b1 <= 159
      [] b0 = 240 -> b1 >= 144 /\ b1 <= 191
      [] b0 = 244 -> b1 >= 128 /\ b1 <= 143
      [] OTHER -> IsCont(b1)

\* bytes.decode('utf-8', errors='replace'): every maximal ill-formed
\* subsequence becomes one U+FFFD.
RECURSIVE decode_utf8_replace(_)
decode_utf8_replace(bs) ==
    IF bs = <<>> THEN <<>>
    ELSE
      LET b0 == bs[1]
          n == Len(bs)
          need == IF b0 < 128 THEN 1
                  ELSE IF b0 >= 194 /\ b0 <= 223 THEN 2
                  ELSE IF b0 >= 224 /\ b0 <= 239 THEN 3
                  ELSE IF b0 >= 240 /\ b0 <= 244 THEN 4
                  ELSE 0
          Rest(k) == decode_utf8_replace(SubSeq(bs, k + 1, n))
      IN
        IF need = 1 THEN <<b0>> \o Rest(1)
        ELSE IF need = 0 THEN <<ReplacementChar>> \o Rest(1)
        ELSE IF n < 2 \/ ~SecondOk(b0, bs[2]) THEN <<ReplacementChar>> \o Rest(1)
        ELSE IF need = 2 THEN <<(b0 - 192) * 64 + (bs[2] - 128)>> \o Rest(2)
        ELSE IF n < 3 \/ ~IsCont(bs[3]) THEN <<ReplacementChar>> \o Rest(2)
        ELSE IF need = 3 THEN
            <<(b0 - 224) * 4096 + (bs[2] - 128) * 64 + (bs[3] - 128)>> \o Rest(3)
        ELSE IF n < 4 \/ ~IsCont(bs[4]) THEN <<ReplacementChar>> \o Rest(3)
        ELSE <<(b0 - 240) * 262144 + (bs[2] - 128) * 4096
               + (bs[3] - 128) * 64 + (bs[4] - 128)>> \o Rest(4)

one_time_pad_encrypt_NoCheck(msg, kbits) ==
    LET msg_bytes == encode_utf8(msg)
        kbytes == bits_to_bytes(kbits)
    IN [raised |-> NoError,
        value |-> xor_bytes(msg_bytes, Slice(kbytes, 0, Len(msg_bytes)))]

\* one_time_pad_encrypt(message, key_bits): the returned bytes, or the
\* exception raised.
one_time_pad_encrypt(msg, kbits) ==
    LET msg_bytes == encode_utf8(msg)
        kbytes == bits_to_bytes(kbits)
    IN IF Len(kbytes) < Len(msg_bytes)
       THEN [raised |-> "ValueError", value |-> Absent]
       ELSE [raised |-> NoError,
             value |-> xor_bytes(msg_bytes, Slice(kbytes, 0, Len(msg_bytes)))]

one_time_pad_decrypt_PadFromEnd(enc, kbits) ==
    LET kbytes == bits_to_bytes(kbits)
        pad == Slice(kbytes, Len(kbytes) - Min(Len(kbytes), Len(enc)), Len(kbytes))
    IN decode_utf8_replace(xor_bytes(enc, pad))

\* one_time_pad_decrypt(encrypted, key_bits)
one_time_pad_decrypt(enc, kbits) ==
    LET kbytes == bits_to_bytes(kbits)
        pad == Slice(kbytes, 0, Len(enc))
        dec == xor_bytes(enc, pad)
    IN decode_utf8_replace(dec)

----------------------------------------------------------------------------
(* The one-time pad functions applied to drawn inputs.                     *)

\* 'H', 'I', e-acute (2 bytes), euro sign (3 bytes).
CodePoints == {72, 73, 233, 8364}

Messages == SeqsUpTo(CodePoints, MaxMsgLen)

KeyOctets == {<<0, 1, 0, 0, 1, 0, 0, 0>>, <<1, 0, 0, 0, 0, 0, 0, 1>>,
              <<1, 1, 1, 1, 1, 1, 1, 1>>, <<0, 0, 1, 0, 1, 1, 0, 1>>}

RECURSIVE Flatten(_)
Flatten(ss) == IF ss = <<>> THEN <<>> ELSE Head(ss) \o Flatten(Tail(ss))

\* Keys: every bit list of at most MaxBits bits, and lists of whole octets
\* followed by at most MaxTail more bits.
KeyBitLists ==
    SeqsUpTo(Bit, MaxBits)
    \cup {Flatten(os) \o t : os \in SeqsUpTo(KeyOctets, MaxKeyOctets),
                             t \in SeqsUpTo(Bit, MaxTail)}

NoRun == [alice_bases |-> <<>>, bob_bases |-> <<>>,
          alice_results |-> <<>>, bob_results |-> <<>>]

NoCorrelations == [p \in (0..2) \X (0..2) |-> [num |-> 0, den |-> 1]]

NoCounts == [p \in (0..2) \X (0..2) |-> 0]

IdleOTP ==
    /\ message = <<>> /\ key_bits = <<>> /\ key_bytes = Absent
    /\ encrypted = Absent /\ decrypted = Absent

IdleRun ==
    /\ num_pairs = 0 /\ i = 0 /\ alice_basis = Unbound /\ bob_basis = Unbound
    /\ results = NoRun /\ measured = <<>>

IdleCHSH ==
    /\ correlations = NoCorrelations /\ counts = NoCounts /\ S_parameter = None

IdleKeys ==
    /\ alice_key = <<>> /\ bob_key = <<>> /\ qber = None
    /\ matching_key = Absent /\ report = <<>>

InitOTP ==
    /\ pc = "otp_start"
    /\ message \in Messages
    /\ key_bits \in KeyBitLists
    /\ key_bytes = Absent /\ encrypted = Absent /\ decrypted = Absent
    /\ error = NoError
    /\ IdleRun /\ IdleCHSH /\ IdleKeys

\* A call of one_time_pad_encrypt(message, key_bits).
Encrypt ==
    /\ pc = "otp_start"
    /\ \E r \in {one_time_pad_encrypt(message, key_bits)} :
          /\ key_bytes' = bits_to_bytes(key_bits)
          /\ encrypted' = r.value
          /\ error' = r.raised
          /\ pc' = IF r.raised = NoError THEN "encrypted" ELSE "otp_failed"
    /\ UNCHANGED <<message, key_bits, decrypted>>
    /\ UNCHANGED <<run_vars, chsh_vars, key_vars>>

\* A call of one_time_pad_decrypt(encrypted, key_bits) on the ciphertext.
Decrypt ==
    /\ pc = "encrypted"
    /\ decrypted' = one_time_pad_decrypt(encrypted, key_bits)
    /\ pc' = "decrypted"
    /\ UNCHANGED <<message, key_bits, key_bytes, encrypted, error>>
    /\ UNCHANGED <<run_vars, chsh_vars, key_vars>>

NextOTP == Encrypt \/ Decrypt

SpecOTP == InitOTP /\ [][NextOTP]_vars

\* Number of bytes of the UTF-8 form of a message.
RECURSIVE Utf8ByteLength(_)
Utf8ByteLength(s) ==
    IF s = <<>> THEN 0
    ELSE (IF Head(s) < 128 THEN 1 ELSE IF Head(s) < 2048 THEN 2
          ELSE IF Head(s) < 65536 THEN 3 ELSE 4) + Utf8ByteLength(Tail(s))

\* C1: for every message m and key k with 8 * (UTF-8 byte length of m) <=
\* len(k), encryption succeeds and decrypting the ciphertext with k returns
\* exactly m.
C1_RoundTrip ==
    (8 * Utf8ByteLength(message) <= Len(key_bits)) =>
        /\ pc # "otp_failed"
        /\ pc = "decrypted" => decrypted = message

C1_Witness ==
    /\ pc = "decrypted"
    /\ message = <<73, 233>>
    /\ Len(key_bits) >= 24
    /\ encrypted # <<73, 195, 169>>
    /\ decrypted = message

\* C2: with fewer than 8 * len(message) key bits the encryption raises and
\* returns no ciphertext; a ciphertext is returned only when the packed key
\* has at least as many bytes as the message, and it has exactly the
\* message's byte length.
C2_InsufficientKey ==
    pc \in {"encrypted", "otp_failed", "decrypted"} =>
        /\ (Len(key_bits) < 8 * Len(message)) =>
              (error = "ValueError" /\ encrypted = Absent /\ pc = "otp_failed")
        /\ (encrypted # Absent) =>
              /\ error = NoError
              /\ Len(key_bytes) >= Utf8ByteLength(message)
              /\ Len(encrypted) = Utf8ByteLength(message)

C2_Witness ==
    /\ pc = "otp_failed"
    /\ Len(message) = 2
    /\ Len(key_bytes) = 1
    /\ error = "ValueError"
    /\ encrypted = Absent

\* C3: bits_to_bytes returns floor(len(bits) / 8) bytes, byte j being the
\* big-endian value of bits 8j .. 8j+7 (first bit most significant); the
\* trailing len(bits) mod 8 bits are dropped; the 10 bits 1000000111 give
\* the single byte 0x81.
C3_BitsToBytes ==
    pc \in {"encrypted", "otp_failed", "decrypted"} =>
        /\ Len(key_bytes) = Len(key_bits) \div 8
        /\ \A j \in 1..Len(key_bytes) :
              LET b(k) == key_bits[8 * (j - 1) + k]
              IN key_bytes[j] = 128 * b(1) + 64 * b(2) + 32 * b(3) + 16 * b(4)
                                + 8 * b(5) + 4 * b(6) + 2 * b(7) + b(8)
        /\ (key_bits = <<1, 0, 0, 0, 0, 0, 0, 1, 1, 1>>) => key_bytes = <<129>>

C3_Witness ==
    /\ pc = "otp_failed"
    /\ key_bits = <<1, 0, 0, 0, 0, 0, 0, 1, 1, 1>>
    /\ key_bytes = <<129>>

----------------------------------------------------------------------------
(* Fractions: the exact value of a Python int or float quotient.           *)
(* Denominators are positive. Each correlation is one correctly rounded    *)
(* division in the code; S is a sum of four of them and is modelled by the *)
(* exact sum.                                                              *)

Frac(n, d) == [num |-> n, den |-> d]

FracAdd(x, y) == Frac(x.num * y.den + y.num * x.den, x.den * y.den)

FracSub(x, y) == Frac(x.num * y.den - y.num * x.den, x.den * y.den)

FracAbs(x) == Frac(Abs(x.num), x.den)

----------------------------------------------------------------------------
(* CHSH analysis.                                                          *)

Bases == 0..2

BasisPairs == Bases \X Bases

\* correlations and counts as created on lines 106-107.
ZeroAcc == [correlations |-> [p \in BasisPairs |-> Frac(0, 1)],
            counts |-> [p \in BasisPairs |-> 0]]

CHSHStep_RawBobBit(acc, a_base, b_base, a_res, b_res) ==
    LET a_val == IF a_res = 0 THEN 1 ELSE -1
        b_val == b_res
        key == <<a_base, b_base>>
    IN [acc EXCEPT !.correlations[key] = FracAdd(@, Frac(a_val * b_val, 1)),
                   !.counts[key] = @ + 1]

\* One iteration of the loop of lines 109-118 on record
\* (a_base, b_base, a_res, b_res).
CHSHStep(acc, a_base, b_base, a_res, b_res) ==
    LET a_val == IF a_res = 0 THEN 1 ELSE -1
        b_val == IF b_res = 0 THEN 1 ELSE -1
        key == <<a_base, b_base>>
    IN [acc EXCEPT !.correlations[key] = FracAdd(@, Frac(a_val * b_val, 1)),
                   !.counts[key] = @ + 1]

\* Lines 121-123: divide each sum by its count where the count is positive.
Average(acc) ==
    [key \in BasisPairs |->
        IF acc.counts[key] > 0
        THEN Frac(acc.correlations[key].num,
                  acc.correlations[key].den * acc.counts[key])
        ELSE acc.correlations[key]]

CHSH_S_AllPlus(corr) ==
    FracAbs(FracAdd(FracAdd(FracAdd(corr[<<0, 0>>], corr[<<0, 2>>]),
                            corr[<<2, 0>>]),
                    corr[<<2, 2>>]))

\* Lines 128-129: S = |E(a1,b1) - E(a1,b3) + E(a3,b1) + E(a3,b3)|.
CHSH_S(corr) ==
    FracAbs(FracAdd(FracAdd(FracSub(corr[<<0, 0>>], corr[<<0, 2>>]),
                            corr[<<2, 0>>]),
                    corr[<<2, 2>>]))

\* The accumulators after the loop has read records 1..n of res.
RECURSIVE CHSHLoop(_, _)
CHSHLoop(res, n) ==
    IF n = 0 THEN ZeroAcc
    ELSE CHSHStep(CHSHLoop(res, n - 1), res.alice_bases[n], res.bob_bases[n],
                  res.alice_results[n], res.bob_results[n])

\* calculate_CHSH_parameter(results): S, correlations (and the counts).
\* The accumulators and the averages are each computed once.
calculate_CHSH_parameter(res) ==
    CHOOSE r \in UNION {{[S |-> CHSH_S(corr),
                          correlations |-> corr,
                          counts |-> acc.counts] : corr \in {Average(acc)}} :
                        acc \in {CHSHLoop(res, Len(res.alice_bases))}} : TRUE

----------------------------------------------------------------------------
(* Key sifting.                                                            *)

IsKeyPair_ZZOnly(a_base, b_base) == a_base = 2 /\ b_base = 1

\* The condition of lines 251-252.
IsKeyPair(a_base, b_base) ==
    (a_base = 1 /\ b_base = 0) \/ (a_base = 2 /\ b_base = 1)

\* alice_key and bob_key after the loop of lines 248-255 has read records
\* 1..n of res.
RECURSIVE SiftLoop(_, _)
SiftLoop(res, n) ==
    IF n = 0 THEN [alice_key |-> <<>>, bob_key |-> <<>>]
    ELSE LET k == SiftLoop(res, n - 1)
         IN IF IsKeyPair(res.alice_bases[n], res.bob_bases[n])
            THEN [alice_key |-> Append(k.alice_key, res.alice_results[n]),
                  bob_key |-> Append(k.bob_key, 1 - res.bob_results[n])]
            ELSE k

\* generate_secure_key(results)
generate_secure_key(res) == SiftLoop(res, Len(res.alice_bases))

----------------------------------------------------------------------------
(* run_e91_protocol followed by generate_secure_key, as __main__ calls     *)
(* them.  USE_IBM_CLOUD selects one of two loops with the same statement   *)
(* order; the backend call is the oracle.  results['circuits'] takes no    *)
(* part in any computation and is left out.                                *)

\* bitstring[::-1]
RECURSIVE Reverse(_)
Reverse(s) == IF s = <<>> THEN <<>> ELSE Reverse(Tail(s)) \o <<Head(s)>>

\* int(c) for a digit character c.
IntOfChar(c) == IF c = "1" THEN 1 ELSE 0

\* The key of counts for a shot that measured q0 into c[0] and q1 into
\* c[1]: the highest classical bit is printed first.
CountsKey(q0, q1) == <<StrOfBit(q1), StrOfBit(q0)>>

ParseBitstring_NoReverse(bitstring) ==
    [alice |-> IntOfChar(bitstring[1]), bob |-> IntOfChar(bitstring[2])]

\* Lines 230-232 (193-195): the two result bits read from the key.
ParseBitstring(bitstring) ==
    LET r == Reverse(bitstring)
    IN [alice |-> IntOfChar(r[1]), bob |-> IntOfChar(r[2])]

Init ==
    /\ pc = "loop"
    /\ num_pairs \in 0..MaxPairs
    /\ i = 0
    /\ alice_basis = Unbound /\ bob_basis = Unbound
    /\ results = NoRun
    /\ measured = <<>>
    /\ error = NoError
    /\ IdleOTP /\ IdleCHSH /\ IdleKeys

\* Lines 209-220: the bases are drawn and appended before the backend runs.
DrawBases ==
    /\ pc = "loop"
    /\ i < num_pairs
    /\ \E a \in Bases, b \in Bases :
          /\ alice_basis' = a
          /\ bob_basis' = b
          /\ results' = [results EXCEPT !.alice_bases = Append(@, a),
                                        !.bob_bases = Append(@, b)]
    /\ pc' = "measure"
    /\ UNCHANGED <<num_pairs, i, measured, error>>
    /\ UNCHANGED <<otp_vars, chsh_vars, key_vars>>

\* Lines 223-232: the backend returns one shot; both bits are appended.
OracleReturns ==
    /\ pc = "measure"
    /\ \E q0 \in Bit, q1 \in Bit :
          LET bits == ParseBitstring(CountsKey(q0, q1))
          IN /\ results' = [results EXCEPT
                               !.alice_results = Append(@, bits.alice),
                               !.bob_results = Append(@, bits.bob)]
             /\ measured' = Append(measured, <<alice_basis, bob_basis, q0, q1>>)
    /\ i' = i + 1
    /\ pc' = "loop"
    /\ UNCHANGED <<num_pairs, alice_basis, bob_basis, error>>
    /\ UNCHANGED <<otp_vars, chsh_vars, key_vars>>

\* Lines 223-225: the backend raises; nothing catches it.
OracleFails ==
    /\ pc = "measure"
    /\ error' = "OracleError"
    /\ pc' = "run_failed"
    /\ UNCHANGED <<run_vars, otp_vars, chsh_vars, key_vars>>

\* Lines 237-240: after the loop, the CHSH analysis; then return.
FinishRun ==
    /\ pc = "loop"
    /\ i = num_pairs
    /\ \E r \in {calculate_CHSH_parameter(results)} :
          /\ S_parameter' = r.S
          /\ correlations' = r.correlations
          /\ counts' = r.counts
    /\ pc' = "returned"
    /\ UNCHANGED <<run_vars, error, otp_vars, key_vars>>

\* Line 294.
GenerateSecureKey ==
    /\ pc = "returned"
    /\ \E k \in {generate_secure_key(results)} :
          /\ alice_key' = k.alice_key
          /\ bob_key' = k.bob_key
    /\ pc' = "sifted"
    /\ UNCHANGED <<qber, matching_key, report>>
    /\ UNCHANGED <<run_vars, error, otp_vars, chsh_vars>>

Next == DrawBases \/ OracleReturns \/ OracleFails \/ FinishRun
           \/ GenerateSecureKey

Spec == Init /\ [][Next]_vars

\* The interpreter keeps executing the program while a statement remains.
FairSpec == Spec /\ WF_vars(Next)

\* Indices of the records measured in a key-generation basis pair.
KeyIndices ==
    {k \in 1..Len(results.alice_bases) :
        <<results.alice_bases[k], results.bob_bases[k]>> \in {<<1, 0>>, <<2, 1>>}}

\* C4: generate_secure_key returns two keys of equal length, the number of
\* records with basis pair (1,0) or (2,1); the k-th entries come from the
\* k-th such record in index order, Alice's bit unchanged and Bob's bit
\* XORed with 1; other records contribute nothing.
C4_Sift ==
    pc = "sifted" =>
        /\ Len(alice_key) = Cardinality(KeyIndices)
        /\ Len(bob_key) = Cardinality(KeyIndices)
        /\ \A k \in KeyIndices :
              LET r == Cardinality({j \in KeyIndices : j <= k})
              IN /\ alice_key[r] = results.alice_results[k]
                 /\ bob_key[r] = XorInt(results.bob_results[k], 1)

C4_Witness ==
    /\ pc = "sifted"
    /\ results.alice_bases = <<0, 2>>
    /\ results.bob_bases = <<0, 1>>
    /\ results.bob_results = <<1, 1>>
    /\ alice_key = <<results.alice_results[2]>>
    /\ bob_key = <<0>>

RunLogFields == {"alice_bases", "bob_bases", "alice_results", "bob_results"}

\* The run log holds exactly num_pairs records, record k being the bases
\* drawn in iteration k and the bits the backend measured for them.
RunLogComplete ==
    /\ \A f \in RunLogFields : Len(results[f]) = num_pairs
    /\ Len(measured) = num_pairs
    /\ \A k \in 1..num_pairs :
          /\ results.alice_bases[k] = measured[k][1]
          /\ results.bob_bases[k] = measured[k][2]
          /\ results.alice_results[k] = measured[k][3]
          /\ results.bob_results[k] = measured[k][4]

\* A step only appends to the four lists.
AppendOnly ==
    \A f \in RunLogFields :
        /\ Len(results[f]) <= Len(results'[f])
        /\ SubSeq(results'[f], 1, Len(results[f])) = results[f]

\* C5: for every N >= 0 a run of run_e91_protocol(N) ends, and unless a
\* backend call failed it returns a run log of exactly N records in index
\* order: the four lists have length N, entry i holds the bases drawn for
\* pair i and the bits measured for those bases, and no appended entry is
\* changed by a later step.
C5_RunLog ==
    /\ [](pc \in {"returned", "sifted"} => RunLogComplete)
    /\ [][AppendOnly]_vars
    /\ <>(pc = "returned" \/ pc = "run_failed")

C5_Witness ==
    /\ pc = "returned"
    /\ num_pairs = 2
    /\ Len(results.bob_results) = 2
    /\ results.alice_bases = <<1, 2>>
    /\ results.alice_results = <<1, 0>>
    /\ results.bob_results = <<0, 0>>
    /\ measured = <<<<1, 0, 1, 0>>, <<2, 2, 0, 0>>>>

\* C11: a record is appended only for a successful backend call: when the
\* call for pair i fails the run fails and the run log holds nothing for
\* pair i, all four lists having length i.
C11_NoPartialRecord ==
    pc = "run_failed" =>
        /\ error # NoError
        /\ \A f \in RunLogFields : Len(results[f]) = i

\* Indices of the records of partition (a, b).
Partition(a, b) ==
    {k \in 1..Len(results.alice_bases) :
        results.alice_bases[k] = a /\ results.bob_bases[k] = b}

AgreeIn(P) == Cardinality({k \in P : results.alice_results[k] = results.bob_results[k]})

DisagreeIn(P) == Cardinality({k \in P : results.alice_results[k] # results.bob_results[k]})

RECURSIVE SumOver(_, _)
SumOver(f, D) ==
    IF D = {} THEN 0
    ELSE LET x == CHOOSE y \in D : TRUE IN f[x] + SumOver(f, D \ {x})

\* C9: for each of the nine partitions the returned correlation is
\* (agreeing - disagreeing) / (records of the partition) when the partition
\* is non-empty and exactly 0 when it is empty; it lies in [-1, 1], is 1.0
\* when all its records agree and -1.0 when all disagree; every record is
\* counted in exactly one partition.
C9_Correlations ==
    pc \in {"returned", "sifted"} =>
        /\ \A a \in 0..2, b \in 0..2 :
              LET P == Partition(a, b)
                  E == correlations[<<a, b>>]
              IN /\ E.den > 0
                 /\ counts[<<a, b>>] = Cardinality(P)
                 /\ (P = {}) => E.num = 0
                 /\ (P # {}) =>
                      E.num * Cardinality(P) = (AgreeIn(P) - DisagreeIn(P)) * E.den
                 /\ -E.den <= E.num /\ E.num <= E.den
                 /\ (P # {} /\ DisagreeIn(P) = 0) => E.num = E.den
                 /\ (P # {} /\ AgreeIn(P) = 0) => E.num = -E.den
        /\ \A k \in 1..Len(results.alice_bases) :
              Cardinality({p \in (0..2) \X (0..2) : k \in Partition(p[1], p[2])}) = 1
        /\ SumOver(counts, (0..2) \X (0..2)) = Len(results.alice_bases)

C9_Witness ==
    /\ pc = "returned"
    /\ counts[<<0, 2>>] = 2
    /\ correlations[<<0, 2>>] = Frac(-2, 2)
    /\ counts[<<1, 1>>] = 0
    /\ correlations[<<1, 1>>] = Frac(0, 1)
    /\ results.bob_results = <<0, 0>>

----------------------------------------------------------------------------
(* calculate_CHSH_parameter alone, on run logs of up to MaxLog records.    *)
(* num_pairs is the length of the log passed in.  A record is drawn when   *)
(* the loop reads it; the function never reads a record twice, so the      *)
(* records already read are not kept.                                      *)

InitCHSH ==
    /\ pc = "chsh_loop"
    /\ num_pairs \in 0..MaxLog
    /\ i = 0
    /\ correlations = ZeroAcc.correlations
    /\ counts = ZeroAcc.counts
    /\ S_parameter = None
    /\ alice_basis = Unbound /\ bob_basis = Unbound
    /\ results = NoRun /\ measured = <<>>
    /\ error = NoError
    /\ IdleOTP /\ IdleKeys

\* Lines 109-118, one iteration.
CHSHRead ==
    /\ pc = "chsh_loop"
    /\ i < num_pairs
    /\ \E a_base \in Bases, b_base \in Bases, a_res \in Bit, b_res \in Bit :
          \E acc \in {CHSHStep([correlations |-> correlations, counts |-> counts],
                               a_base, b_base, a_res, b_res)} :
              /\ correlations' = acc.correlations
              /\ counts' = acc.counts
    /\ i' = i + 1
    /\ UNCHANGED <<pc, error, num_pairs, alice_basis, bob_basis, results,
                   measured, S_parameter>>
    /\ UNCHANGED <<otp_vars, key_vars>>

\* Lines 121-131.
CHSHFinish ==
    /\ pc = "chsh_loop"
    /\ i = num_pairs
    /\ \E corr \in {Average([correlations |-> correlations, counts |-> counts])} :
          /\ correlations' = corr
          /\ S_parameter' = CHSH_S(corr)
    /\ pc' = "chsh_done"
    /\ UNCHANGED <<error, counts, run_vars, otp_vars, key_vars>>

NextCHSH == CHSHRead \/ CHSHFinish

SpecCHSH == InitCHSH /\ [][NextCHSH]_vars

\* C8: S is the absolute value of the signed sum of the four designated
\* correlations, three added (E(a1,b1), E(a3,b1), E(a3,b3)) and one
\* subtracted (E(a1,b3)); so 0 <= S <= 4, and S = 4 when the three added
\* correlations are 1 and the subtracted one is -1.
C8_CHSH ==
    pc = "chsh_done" =>
        LET P1 == correlations[<<0, 0>>]
            P2 == correlations[<<2, 0>>]
            P3 == correlations[<<2, 2>>]
            M == correlations[<<0, 2>>]
            D == P1.den * P2.den * P3.den * M.den
            N == P1.num * P2.den * P3.den * M.den
                 + P2.num * P1.den * P3.den * M.den
                 + P3.num * P1.den * P2.den * M.den
                 - M.num * P1.den * P2.den * P3.den
        IN /\ S_parameter.den > 0
           /\ S_parameter.num * D = Abs(N) * S_parameter.den
           /\ 0 <= S_parameter.num
           /\ S_parameter.num <= 4 * S_parameter.den
           /\ (P1.num = P1.den /\ P2.num = P2.den /\ P3.num = P3.den
               /\ M.num = -M.den) => S_parameter.num = 4 * S_parameter.den

C8_Witness ==
    /\ pc = "chsh_done"
    /\ counts[<<0, 0>>] = 1 /\ counts[<<0, 2>>] = 1
    /\ counts[<<2, 0>>] = 1 /\ counts[<<2, 2>>] = 1
    /\ correlations[<<0, 2>>] = Frac(-1, 1)
    /\ S_parameter.num = 4 * S_parameter.den

----------------------------------------------------------------------------
(* The QBER computation of __main__, lines 296-301.                        *)

\* sum(1 for a, b in zip(alice_key, bob_key) if a != b) over the first n
\* zipped pairs.
RECURSIVE ZipErrors(_, _, _)
ZipErrors(ak, bk, n) ==
    IF n = 0 THEN 0
    ELSE ZipErrors(ak, bk, n - 1) + (IF ak[n] # bk[n] THEN 1 ELSE 0)

QBER_CountMatches(ak, bk) ==
    IF ak # <<>> /\ bk # <<>>
    THEN Frac(Min(Len(ak), Len(bk)) - ZipErrors(ak, bk, Min(Len(ak), Len(bk))),
              Len(ak))
    ELSE None

\* The value bound to qber; no statement of the block raises.
QBER(ak, bk) ==
    IF ak # <<>> /\ bk # <<>>
    THEN LET errors == ZipErrors(ak, bk, Min(Len(ak), Len(bk)))
         IN IF Len(ak) > 0 THEN Frac(errors, Len(ak)) ELSE Frac(0, 1)
    ELSE None

\* The block applied to any two keys.
InitQBER ==
    /\ pc = "qber"
    /\ alice_key \in SeqsUpTo(Bit, MaxKeyBits)
    /\ bob_key \in SeqsUpTo(Bit, MaxKeyBits)
    /\ qber = None /\ matching_key = Absent /\ report = <<>>
    /\ error = NoError
    /\ IdleOTP /\ IdleRun /\ IdleCHSH

\* Lines 296-301.
ComputeQBER ==
    /\ pc = "qber"
    /\ qber' = QBER(alice_key, bob_key)
    /\ pc' = "display"
    /\ UNCHANGED <<error, alice_key, bob_key, matching_key, report>>
    /\ UNCHANGED <<otp_vars, run_vars, chsh_vars>>

NextQBER == ComputeQBER

SpecQBER == InitQBER /\ [][NextQBER]_vars

Differing == {k \in 1..Len(alice_key) : alice_key[k] # bob_key[k]}

\* C7: for non-empty keys of equal length L the QBER is (number of
\* differing positions) / L; it lies in [0, 1], is 0 for identical keys and
\* 1 for complementary keys.
C7_QBER ==
    (pc = "display" /\ Len(alice_key) = Len(bob_key) /\ Len(alice_key) > 0) =>
        /\ qber.den > 0
        /\ qber.num * Len(alice_key) = Cardinality(Differing) * qber.den
        /\ 0 <= qber.num /\ qber.num <= qber.den
        /\ (alice_key = bob_key) => qber.num = 0
        /\ (\A k \in 1..Len(alice_key) : bob_key[k] = 1 - alice_key[k]) =>
              qber.num = qber.den

C7_Witness ==
    /\ pc = "display"
    /\ alice_key = <<0, 1, 1>>
    /\ bob_key = <<0, 0, 1>>
    /\ qber = Frac(1, 3)

----------------------------------------------------------------------------
(* The report of __main__ from the QBER computation to the end, started    *)
(* from the keys generate_secure_key returned: two keys of equal length.   *)
(* Alice's key repeats a drawn pattern of SeedLen bits; Bob's differs from *)
(* it at a drawn subset of the first MaxErrPos positions.                  *)

\* Line 335: "HI".
secret_message == <<72, 73>>

\* Line 336.
required_bits == Len(secret_message) * 8

PatternKey(seed, n) == [k \in 1..n |-> seed[((k - 1) % SeedLen) + 1]]

FlipAt(key, errs) ==
    [k \in 1..Len(key) |-> IF k \in errs THEN 1 - key[k] ELSE key[k]]

InitReport ==
    /\ pc = "qber"
    /\ \E n \in 0..MaxSifted, seed \in [1..SeedLen -> Bit],
          errs \in SUBSET (1..MaxErrPos) :
          /\ alice_key = PatternKey(seed, n)
          /\ bob_key = FlipAt(PatternKey(seed, n), errs)
    /\ qber = None /\ matching_key = Absent /\ report = <<>>
    /\ error = NoError
    /\ IdleOTP /\ IdleRun /\ IdleCHSH

\* Lines 303-328: the results, then the QBER with its classification when
\* qber is not None.  0.11 is 11/100.
DisplayResults ==
    /\ pc = "display"
    /\ report' = report \o <<"results">> \o
          (IF qber = None THEN <<>>
           ELSE IF qber.num = 0 THEN <<"qber", "keys_match_perfectly">>
           ELSE IF qber.num * 100 < 11 * qber.den THEN <<"qber", "secure">>
           ELSE <<"qber", "high_qber_warning">>)
    /\ pc' = "otp"
    /\ UNCHANGED <<error, alice_key, bob_key, qber, matching_key>>
    /\ UNCHANGED <<otp_vars, run_vars, chsh_vars>>

\* [alice_key[i] for i in range(len(alice_key)) if alice_key[i] == bob_key[i]]
\* over indices 1..n; bob_key is at least as long as alice_key.
RECURSIVE MatchingBits(_, _, _)
MatchingBits(ak, bk, n) ==
    IF n = 0 THEN <<>>
    ELSE MatchingBits(ak, bk, n - 1)
         \o (IF ak[n] = bk[n] THEN <<ak[n]>> ELSE <<>>)

\* Lines 331-343: the heading, matching_key, and the three lines about it;
\* the third divides by len(alice_key).
OtpHeader ==
    /\ pc = "otp"
    /\ IF Len(bob_key) < Len(alice_key)
       THEN /\ error' = "IndexError"
            /\ pc' = "aborted"
            /\ report' = report \o <<"otp_heading">>
            /\ UNCHANGED matching_key
       ELSE /\ matching_key' = MatchingBits(alice_key, bob_key, Len(alice_key))
            /\ IF Len(alice_key) = 0
               THEN /\ error' = "ZeroDivisionError"
                    /\ pc' = "aborted"
                    /\ report' = report \o <<"otp_heading", "original_key_length",
                                            "matching_bits">>
               ELSE /\ error' = NoError
                    /\ pc' = "otp_check"
                    /\ report' = report \o <<"otp_heading", "original_key_length",
                                            "matching_bits", "key_error_rate">>
    /\ UNCHANGED <<alice_key, bob_key, qber>>
    /\ UNCHANGED <<otp_vars, run_vars, chsh_vars>>

\* Lines 345-348: too few matching bits; required and available are printed.
OtpSkip ==
    /\ pc = "otp_check"
    /\ Len(matching_key) < required_bits
    /\ report' = report \o <<"not_enough_matching_bits", "need_required_bits">>
    /\ pc' = "visualize"
    /\ UNCHANGED <<error, alice_key, bob_key, qber, matching_key>>
    /\ UNCHANGED <<otp_vars, run_vars, chsh_vars>>

\* Lines 349-370: encrypt and decrypt with the first required_bits matching
\* bits; an exception is caught and printed.
OtpEncrypt ==
    /\ pc = "otp_check"
    /\ ~(Len(matching_key) < required_bits)
    /\ \E encryption_key \in {Slice(matching_key, 0, required_bits)} :
       \E r \in {one_time_pad_encrypt(secret_message, encryption_key)} :
          /\ message' = secret_message
          /\ key_bits' = encryption_key
          /\ key_bytes' = bits_to_bytes(encryption_key)
          /\ encrypted' = r.value
          /\ IF r.raised # NoError
             THEN /\ decrypted' = decrypted
                  /\ report' = report \o <<"encryption_error">>
             ELSE \E decrypted_msg \in {one_time_pad_decrypt(r.value, encryption_key)} :
                  /\ decrypted' = decrypted_msg
                  /\ report' = report \o <<"original", "encrypted_hex",
                                          "decrypted", "key_bits_used">>
                                     \o (IF secret_message = decrypted_msg
                                         THEN <<"success">>
                                         ELSE <<"decryption_failed">>)
    /\ pc' = "visualize"
    /\ UNCHANGED <<error, alice_key, bob_key, qber, matching_key>>
    /\ UNCHANGED <<run_vars, chsh_vars>>

\* Lines 372-376.
Visualize ==
    /\ pc = "visualize"
    /\ report' = Append(report, "visualizations")
    /\ pc' = "done"
    /\ UNCHANGED <<error, alice_key, bob_key, qber, matching_key>>
    /\ UNCHANGED <<otp_vars, run_vars, chsh_vars>>

NextReport == ComputeQBER \/ DisplayResults \/ OtpHeader \/ OtpSkip
              \/ OtpEncrypt \/ Visualize

SpecReport == InitReport /\ [][NextReport]_vars

\* Number of positions where the two sifted keys agree.
Agreeing == Cardinality({k \in 1..Len(alice_key) : alice_key[k] = bob_key[k]})

InReport(tag) == \E k \in 1..Len(report) : report[k] = tag

\* C10: whenever the agreement-filtered sifted key has fewer bits than the
\* message requires (an empty sifted key included), the report prints the
\* required and the available number of bits, skips the encryption and
\* runs to its end without an error.
C10_InsufficientKeySkips ==
    (pc \in {"done", "aborted"} /\ Agreeing < required_bits) =>
        /\ pc = "done"
        /\ error = NoError
        /\ InReport("not_enough_matching_bits")
        /\ InReport("need_required_bits")
        /\ encrypted = Absent

====
